---------------------------- MODULE Spec2Model ----------------------------
(***************************************************************************)
(* A model of biopics-mcp (src/src/index.ts): the MCP tool handlers, the   *)
(* request client `api`, and the envelope helpers toolResult / toolError.  *)
(*                                                                         *)
(* Strings are sequences of characters.  A character is a TLA+ string: a   *)
(* punctuation character ("?", "&", "=", " ", "\"", ...) or a word such as  *)
(* "Music" that stands for a run of letters holding no punctuation.        *)
(* JavaScript values are tagged records (field t is the type tag).         *)
(***************************************************************************)
EXTENDS Integers, Sequences, FiniteSets, TLC

(***************************************************************************)
(* JavaScript values                                                       *)
(***************************************************************************)
Undef == [t |-> "undefined"]

JNull == [t |-> "null"]

JBool(b) == [t |-> "bool", b |-> b]

JNum(n) == [t |-> "num", n |-> n]

\* The number Infinity: what JSON.parse yields for a literal beyond the
\* range of a double (1e999).
JInf == [t |-> "infinity"]

JStr(s) == [t |-> "str", s |-> s]

JArr(a) == [t |-> "arr", a |-> a]

\* An object is the sequence of its own properties in insertion order.
JObj(o) == [t |-> "obj", o |-> o]

Prop(k, v) == [key |-> k, val |-> v]

\* JavaScript truthiness, as `if (x)` tests it.
Truthy(v) ==
    CASE v.t = "undefined" -> FALSE
      [] v.t = "null" -> FALSE
      [] v.t = "bool" -> v.b
      [] v.t = "num" -> v.n # 0
      [] v.t = "str" -> v.s # <<>>
      [] OTHER -> TRUE

(***************************************************************************)
(* Number formatting: String(n) and template interpolation of a number     *)
(***************************************************************************)
Digits == <<"0", "1", "2", "3", "4", "5", "6", "7", "8", "9">>

IsDigit(c) == \E d \in 1..10 : Digits[d] = c

DigitVal(c) == (CHOOSE d \in 1..10 : Digits[d] = c) - 1

RECURSIVE NatStr(_)
NatStr(n) ==
    IF n < 10 THEN <<Digits[n + 1]>>
    ELSE NatStr(n \div 10) \o <<Digits[(n % 10) + 1]>>

NumStr(n) == IF n < 0 THEN <<"-">> \o NatStr(-n) ELSE NatStr(n)

(***************************************************************************)
(* JSON.stringify(value, null, 2)                                          *)
(***************************************************************************)
RECURSIVE Spaces(_)
Spaces(n) == IF n = 0 THEN <<>> ELSE <<" ">> \o Spaces(n - 1)

\* Mutant of EscapeChar: a serializer that does not escape.
EscapeCharNone(c) == <<c>>

EscapeChar(c) ==
    IF c = "\"" THEN <<"\\", "\"">>
    ELSE IF c = "\\" THEN <<"\\", "\\">>
    ELSE <<c>>

RECURSIVE EscapeStr(_)
EscapeStr(s) ==
    IF s = <<>> THEN <<>> ELSE EscapeChar(Head(s)) \o EscapeStr(Tail(s))

Quote(s) == <<"\"">> \o EscapeStr(s) \o <<"\"">>

RECURSIVE Stringify(_, _, _)
RECURSIVE StringifyItems(_, _, _, _)
RECURSIVE StringifyProps(_, _, _, _)
\* indent = 2 is JSON.stringify(data, null, 2); indent = 0 is JSON.stringify(body)
Stringify(v, indent, depth) ==
    CASE v.t = "null" -> <<"null">>
      [] v.t = "bool" -> (IF v.b THEN <<"true">> ELSE <<"false">>)
      [] v.t = "num" -> NumStr(v.n)
      [] v.t = "infinity" -> <<"null">>
      [] v.t = "str" -> Quote(v.s)
      [] v.t = "arr" ->
            IF v.a = <<>> THEN <<"[", "]">>
            ELSE <<"[">> \o StringifyItems(v.a, 1, indent, depth + 1)
                 \o (IF indent = 0 THEN <<>> ELSE <<"\n">> \o Spaces(indent * depth))
                 \o <<"]">>
      [] v.t = "obj" ->
            IF v.o = <<>> THEN <<"{", "}">>
            ELSE <<"{">> \o StringifyProps(v.o, 1, indent, depth + 1)
                 \o (IF indent = 0 THEN <<>> ELSE <<"\n">> \o Spaces(indent * depth))
                 \o <<"}">>

StringifyItems(a, k, indent, depth) ==
    IF k > Len(a) THEN <<>>
    ELSE (IF k > 1 THEN <<",">> ELSE <<>>)
         \o (IF indent = 0 THEN <<>> ELSE <<"\n">> \o Spaces(indent * depth))
         \o Stringify(a[k], indent, depth)
         \o StringifyItems(a, k + 1, indent, depth)

StringifyProps(o, k, indent, depth) ==
    IF k > Len(o) THEN <<>>
    ELSE (IF k > 1 THEN <<",">> ELSE <<>>)
         \o (IF indent = 0 THEN <<>> ELSE <<"\n">> \o Spaces(indent * depth))
         \o Quote(o[k].key) \o <<":">>
         \o (IF indent = 0 THEN <<>> ELSE <<" ">>)
         \o Stringify(o[k].val, indent, depth)
         \o StringifyProps(o, k + 1, indent, depth)

(***************************************************************************)
(* JSON.parse(text): a result is [ok, v, next]; next is the position after *)
(* the value.                                                              *)
(***************************************************************************)
ParseFail == [ok |-> FALSE, v |-> JNull, next |-> 0]

ParseOk(v, next) == [ok |-> TRUE, v |-> v, next |-> next]

IsSpace(c) == c \in {" ", "\n"}

RECURSIVE SkipSpace(_, _)
SkipSpace(ts, i) ==
    IF i <= Len(ts) /\ IsSpace(ts[i]) THEN SkipSpace(ts, i + 1) ELSE i

\* The characters of a string literal from position i (after the opening
\* quote) to its closing quote.
RECURSIVE ParseChars(_, _, _)
ParseChars(ts, i, acc) ==
    IF i > Len(ts) THEN ParseFail
    ELSE IF ts[i] = "\"" THEN ParseOk(JStr(acc), i + 1)
    ELSE IF ts[i] = "\n" THEN ParseFail
    ELSE IF ts[i] = "\\" THEN
        IF i + 1 <= Len(ts) /\ ts[i + 1] \in {"\"", "\\"}
        THEN ParseChars(ts, i + 2, Append(acc, ts[i + 1]))
        ELSE ParseFail
    ELSE ParseChars(ts, i + 1, Append(acc, ts[i]))

RECURSIVE ParseDigits(_, _, _)
ParseDigits(ts, i, acc) ==
    IF i <= Len(ts) /\ IsDigit(ts[i])
    THEN ParseDigits(ts, i + 1, 10 * acc + DigitVal(ts[i]))
    ELSE [n |-> acc, next |-> i]

\* A number literal: [-] digits [exponent].  The one exponent of the model
\* is the word "e999", which takes any non-zero mantissa out of the range
\* of a double.
ParseNumber(ts, i) ==
    LET neg == ts[i] = "-"
        j == IF neg THEN i + 1 ELSE i
    IN  IF j > Len(ts) \/ ~IsDigit(ts[j]) THEN ParseFail
        ELSE LET d == ParseDigits(ts, j, 0)
                 leadingZero == ts[j] = "0" /\ d.next > j + 1
                 hasExp == d.next <= Len(ts) /\ ts[d.next] = "e999"
                 val == IF neg THEN 0 - d.n ELSE d.n
             IN  IF leadingZero THEN ParseFail
                 ELSE IF hasExp
                 THEN ParseOk(IF d.n = 0 THEN JNum(0) ELSE JInf, d.next + 1)
                 ELSE ParseOk(JNum(val), d.next)

\* o with property k set to v: an existing key keeps its place (a duplicate
\* key in the text overwrites the earlier value).
SetProp(o, k, v) ==
    IF \E x \in 1..Len(o) : o[x].key = k
    THEN [x \in 1..Len(o) |-> IF o[x].key = k THEN Prop(k, v) ELSE o[x]]
    ELSE Append(o, Prop(k, v))

RECURSIVE ParseValue(_, _)
RECURSIVE ParseItems(_, _, _)
RECURSIVE ParseProps(_, _, _)
ParseValue(ts, i0) ==
    LET i == SkipSpace(ts, i0)
    IN  IF i > Len(ts) THEN ParseFail
        ELSE CASE ts[i] = "null" -> ParseOk(JNull, i + 1)
               [] ts[i] = "true" -> ParseOk(JBool(TRUE), i + 1)
               [] ts[i] = "false" -> ParseOk(JBool(FALSE), i + 1)
               [] ts[i] = "\"" -> ParseChars(ts, i + 1, <<>>)
               [] ts[i] = "-" \/ IsDigit(ts[i]) -> ParseNumber(ts, i)
               [] ts[i] = "[" ->
                    LET j == SkipSpace(ts, i + 1)
                    IN  IF j <= Len(ts) /\ ts[j] = "]" THEN ParseOk(JArr(<<>>), j + 1)
                        ELSE ParseItems(ts, j, <<>>)
               [] ts[i] = "{" ->
                    LET j == SkipSpace(ts, i + 1)
                    IN  IF j <= Len(ts) /\ ts[j] = "}" THEN ParseOk(JObj(<<>>), j + 1)
                        ELSE ParseProps(ts, j, <<>>)
               [] OTHER -> ParseFail

\* The elements of an array from position i, up to and including "]".
ParseItems(ts, i, acc) ==
    LET r == ParseValue(ts, i)
    IN  IF ~r.ok THEN ParseFail
        ELSE LET j == SkipSpace(ts, r.next)
             IN  IF j > Len(ts) THEN ParseFail
                 ELSE IF ts[j] = "," THEN ParseItems(ts, j + 1, Append(acc, r.v))
                 ELSE IF ts[j] = "]" THEN ParseOk(JArr(Append(acc, r.v)), j + 1)
                 ELSE ParseFail

\* The members of an object from position i, up to and including "}".
ParseProps(ts, i0, acc) ==
    LET i == SkipSpace(ts, i0)
    IN  IF i > Len(ts) \/ ts[i] # "\"" THEN ParseFail
        ELSE LET k == ParseChars(ts, i + 1, <<>>)
             IN  IF ~k.ok THEN ParseFail
                 ELSE LET c == SkipSpace(ts, k.next)
                      IN  IF c > Len(ts) \/ ts[c] # ":" THEN ParseFail
                          ELSE LET r == ParseValue(ts, c + 1)
                               IN  IF ~r.ok THEN ParseFail
                                   ELSE LET j == SkipSpace(ts, r.next)
                                            o == SetProp(acc, k.v.s, r.v)
                                        IN  IF j > Len(ts) THEN ParseFail
                                            ELSE IF ts[j] = ","
                                            THEN ParseProps(ts, j + 1, o)
                                            ELSE IF ts[j] = "}"
                                            THEN ParseOk(JObj(o), j + 1)
                                            ELSE ParseFail

\* JSON.parse of a whole text: the value, then nothing but white space.
JSONparse(ts) ==
    LET r == ParseValue(ts, 1)
    IN  IF r.ok /\ SkipSpace(ts, r.next) = Len(ts) + 1
        THEN [ok |-> TRUE, v |-> r.v]
        ELSE [ok |-> FALSE, v |-> JNull]

(***************************************************************************)
(* String helpers                                                          *)
(***************************************************************************)
\* path.includes("?")
Includes(s, c) == \E k \in 1..Len(s) : s[k] = c

\* sub occurs in s at position k
OccursAt(s, sub, k) ==
    /\ k + Len(sub) - 1 <= Len(s)
    /\ \A j \in 1..Len(sub) : s[k + j - 1] = sub[j]

Contains(s, sub) == \E k \in 1..(Len(s) + 1) : OccursAt(s, sub, k)

Occurrences(s, sub) == Cardinality({k \in 1..Len(s) : OccursAt(s, sub, k)})

(***************************************************************************)
(* URLSearchParams: set and toString (application/x-www-form-urlencoded)   *)
(***************************************************************************)
FormEncodeChar(c) ==
    CASE c = " " -> "+"
      [] c = "?" -> "%3F"
      [] c = "&" -> "%26"
      [] c = "=" -> "%3D"
      [] c = "\"" -> "%22"
      [] OTHER -> c

FormEncode(s) == [k \in 1..Len(s) |-> FormEncodeChar(s[k])]

ParamsSet(params, k, v) ==
    IF \E j \in 1..Len(params) : params[j].key = k
    THEN [j \in 1..Len(params) |-> IF params[j].key = k THEN Prop(k, v) ELSE params[j]]
    ELSE Append(params, Prop(k, v))

RECURSIVE ParamsToString(_)
ParamsToString(params) ==
    IF params = <<>> THEN <<>>
    ELSE FormEncode(params[1].key) \o <<"=">> \o FormEncode(params[1].val)
         \o (IF Len(params) > 1 THEN <<"&">> ELSE <<>>)
         \o ParamsToString(Tail(params))

(***************************************************************************)
(* Identity context, read once from the environment.  An unset variable    *)
(* and an empty one are both the empty string after `|| ""`.               *)
(***************************************************************************)
VARIABLES
    env,    \* the three environment settings, fixed for the process lifetime
    pc,     \* pc[i]: where invocation i is: "idle", "fetching" or "done"
    call,   \* call[i]: the tool and arguments of invocation i
    reqs,   \* reqs[i]: the HTTP requests invocation i has issued, in order
    net,    \* net[i]: the state of the network call of invocation i
    out     \* out[i]: the envelopes invocation i returned, and whether a
            \* failure left the handler uncaught

vars == <<env, pc, call, reqs, net, out>>

API_BASE == <<"https://api.biopics.ai">>

AGENT_NAME == IF env.BIOPICS_AGENT # <<>> THEN env.BIOPICS_AGENT ELSE <<"mcp-agent">>

MODEL_NAME == env.BIOPICS_MODEL

USER_TOKEN == env.BIOPICS_USER_TOKEN

(***************************************************************************)
(* Envelopes                                                               *)
(***************************************************************************)
toolResult(data) ==
    [content |-> <<[type |-> "text", text |-> Stringify(data, 2, 0)]>>]

\* err is the message of the Error that was thrown
toolError(err) ==
    [content |-> <<[type |-> "text", text |-> <<"Error", ":", " ">> \o err]>>,
     isError |-> TRUE]

(***************************************************************************)
(* The request client `api`, in two halves around `await fetch`.           *)
(***************************************************************************)
NoHeaders == <<>>

Options(method, body) == [method |-> method, body |-> body, headers |-> NoHeaders]

NoOptions == Options(Undef, Undef)

\* {...a, ...b}
Spread(a, b) ==
    [n \in (DOMAIN a) \cup (DOMAIN b) |-> IF n \in DOMAIN b THEN b[n] ELSE a[n]]

\* the identity headers api builds before the merge
apiHeaders ==
    [n \in {"Content-Type", "X-Agent-Name"}
           \cup (IF MODEL_NAME # <<>> THEN {"X-Model"} ELSE {})
           \cup (IF USER_TOKEN # <<>> THEN {"Authorization"} ELSE {}) |->
        CASE n = "Content-Type" -> <<"application/json">>
          [] n = "X-Agent-Name" -> AGENT_NAME
          [] n = "X-Model" -> MODEL_NAME
          [] n = "Authorization" -> <<"Bearer", " ">> \o USER_TOKEN]

\* Mutant of agentSuffix: the agent parameter appended whatever the token.
agentSuffixAlways(path) ==
    LET sep == IF Includes(path, "?") THEN "&" ELSE "?"
    IN  <<sep, "agent", "=">> \o AGENT_NAME

\* the suffix api appends to the path
agentSuffix(path) ==
    LET sep == IF Includes(path, "?") THEN "&" ELSE "?"
    IN  IF USER_TOKEN # <<>> THEN <<>> ELSE <<sep, "agent", "=">> \o AGENT_NAME

\* The request `fetch` is called with.  A call without a method is a GET.
apiRequest(path, options) ==
    [url |-> API_BASE \o path \o agentSuffix(path),
     method |-> IF options.method = Undef THEN <<"GET">> ELSE options.method.s,
     headers |-> Spread(apiHeaders, options.headers),
     body |-> options.body]

\* What an await inside api ends with: a value, or a thrown Error's message.
Returned(v) == [threw |-> FALSE, value |-> v]

Threw(msg) == [threw |-> TRUE, err |-> msg]

\* res.ok
ResOk(status) == 200 <= status /\ status <= 299

\* Mutant of apiResult: the error of a non-2xx answer without the body text.
apiResultStatusOnly(r) ==
    IF r.kind = "failed" THEN Threw(r.msg)
    ELSE IF ~ResOk(r.status) THEN Threw(<<"API", " ">> \o NumStr(r.status))
    ELSE IF ~r.read THEN Threw(r.msg)
    ELSE LET p == JSONparse(r.body)
         IN  IF p.ok THEN Returned(p.v)
             ELSE Threw(<<"Unexpected", " ", "token">>)

\* The rest of api once the network call has ended.  A network outcome is
\*   [kind |-> "failed", msg]               fetch rejected
\*   [kind |-> "responded", status, read, body]
\*     read = FALSE: reading the body rejected (msg holds the message)
apiResult(r) ==
    IF r.kind = "failed" THEN Threw(r.msg)
    ELSE IF ~ResOk(r.status) THEN
        IF ~r.read THEN Threw(r.msg)
        ELSE Threw(<<"API", " ">> \o NumStr(r.status) \o <<":", " ">> \o r.body)
    ELSE IF ~r.read THEN Threw(r.msg)
    ELSE LET p == JSONparse(r.body)
         IN  IF p.ok THEN Returned(p.v)
             ELSE Threw(<<"Unexpected", " ", "token">>)

(***************************************************************************)
(* The tools: parameter schemas (zod) and handlers.  The arguments of a    *)
(* call are a function from the tool's parameter names to JavaScript       *)
(* values; a parameter the caller left out is Undef.                       *)
(***************************************************************************)
Tools ==
    {"get_assignment", "submit_contribution", "review_person", "browse_people",
     "find_needs", "my_contributions", "leaderboard", "check_confidence"}

\* z.string(), z.number(), z.enum([...]), and .optional()
ZString == [type |-> "string", optional |-> FALSE, values |-> {}]

ZNumber == [type |-> "number", optional |-> FALSE, values |-> {}]

ZEnum(values) == [type |-> "enum", optional |-> FALSE, values |-> values]

Optional(z) == [z EXCEPT !.optional = TRUE]

Schema(tool) ==
    CASE tool = "get_assignment" -> [slug |-> ZString]
      [] tool = "submit_contribution" ->
            [slug |-> ZString, type |-> ZString, content |-> ZString,
             source_url |-> Optional(ZString), scene_id |-> Optional(ZNumber),
             liberty_note |-> Optional(ZString)]
      [] tool = "review_person" -> [slug |-> ZString]
      [] tool = "browse_people" ->
            [q |-> Optional(ZString), tag |-> Optional(ZString),
             page |-> Optional(ZNumber), limit |-> Optional(ZNumber)]
      [] tool = "find_needs" ->
            [priority |-> Optional(ZEnum({<<"high">>, <<"medium">>, <<"low">>})),
             tag |-> Optional(ZString), limit |-> Optional(ZNumber)]
      [] tool = "my_contributions" ->
            [status |-> Optional(ZEnum({<<"pending">>, <<"approved">>, <<"rejected">>,
                                        <<"integrated">>, <<"needs-revision">>})),
             type |-> Optional(ZString)]
      [] tool = "leaderboard" -> [limit |-> Optional(ZNumber)]
      [] tool = "check_confidence" -> [slug |-> ZString]

\* Mutant of Accepts: an enum parameter declared as a plain string.
AcceptsEnumAsString(z, v) ==
    \/ z.optional /\ v = Undef
    \/ z.type \in {"string", "enum"} /\ v.t = "str"
    \/ z.type = "number" /\ v.t = "num"

\* whether value v passes schema z
Accepts(z, v) ==
    \/ z.optional /\ v = Undef
    \/ z.type = "string" /\ v.t = "str"
    \/ z.type = "number" /\ v.t = "num"
    \/ z.type = "enum" /\ v.t = "str" /\ v.s \in z.values

Valid(tool, args) == \A p \in DOMAIN Schema(tool) : Accepts(Schema(tool)[p], args[p])

\* What a handler hands to api: the path and the options.
ApiCall(path, options) == [path |-> path, options |-> options]

get_assignment(args) == ApiCall(<<"/assignment/">> \o args.slug.s, NoOptions)

\* Mutant of contributionBody: optional fields included by presence, not by
\* truthiness.
contributionBodyByPresence(args) ==
    LET b0 == <<Prop(<<"type">>, JStr(args.type.s)), Prop(<<"content">>, JStr(args.content.s))>>
        b1 == IF args.source_url # Undef THEN Append(b0, Prop(<<"source_url">>, args.source_url)) ELSE b0
        b2 == IF args.scene_id # Undef THEN Append(b1, Prop(<<"scene_id">>, args.scene_id)) ELSE b1
        b3 == IF args.liberty_note # Undef THEN Append(b2, Prop(<<"liberty_note">>, args.liberty_note)) ELSE b2
    IN  JObj(b3)

\* the body object built by the submit_contribution handler
contributionBody(args) ==
    LET b0 == <<Prop(<<"type">>, JStr(args.type.s)), Prop(<<"content">>, JStr(args.content.s))>>
        b1 == IF Truthy(args.source_url) THEN Append(b0, Prop(<<"source_url">>, args.source_url)) ELSE b0
        b2 == IF Truthy(args.scene_id) THEN Append(b1, Prop(<<"scene_id">>, args.scene_id)) ELSE b1
        b3 == IF Truthy(args.liberty_note) THEN Append(b2, Prop(<<"liberty_note">>, args.liberty_note)) ELSE b2
    IN  JObj(b3)

submit_contribution(args) ==
    ApiCall(<<"/contribute/">> \o args.slug.s,
            Options(JStr(<<"POST">>), JStr(Stringify(contributionBody(args), 0, 0))))

review_person(args) == ApiCall(<<"/review/">> \o args.slug.s, NoOptions)

\* `${base}${qs ? "?" + qs : ""}`
WithQuery(base, params) ==
    LET qs == ParamsToString(params)
    IN  base \o (IF qs # <<>> THEN <<"?">> \o qs ELSE <<>>)

\* String(n) of a number argument
String(v) == NumStr(v.n)

\* Mutant of browse_people: an omitted page sent as its default.
browse_peopleDefaultPage(args) ==
    LET p0 == <<>>
        p1 == IF Truthy(args.q) THEN ParamsSet(p0, <<"q">>, args.q.s) ELSE p0
        p2 == IF Truthy(args.tag) THEN ParamsSet(p1, <<"tag">>, args.tag.s) ELSE p1
        p3 == ParamsSet(p2, <<"page">>, IF Truthy(args.page) THEN String(args.page) ELSE <<"1">>)
        p4 == IF Truthy(args.limit) THEN ParamsSet(p3, <<"limit">>, String(args.limit)) ELSE p3
    IN  ApiCall(WithQuery(<<"/people">>, p4), NoOptions)

browse_people(args) ==
    LET p0 == <<>>
        p1 == IF Truthy(args.q) THEN ParamsSet(p0, <<"q">>, args.q.s) ELSE p0
        p2 == IF Truthy(args.tag) THEN ParamsSet(p1, <<"tag">>, args.tag.s) ELSE p1
        p3 == IF Truthy(args.page) THEN ParamsSet(p2, <<"page">>, String(args.page)) ELSE p2
        p4 == IF Truthy(args.limit) THEN ParamsSet(p3, <<"limit">>, String(args.limit)) ELSE p3
    IN  ApiCall(WithQuery(<<"/people">>, p4), NoOptions)

find_needs(args) ==
    LET p0 == <<>>
        p1 == IF Truthy(args.priority) THEN ParamsSet(p0, <<"priority">>, args.priority.s) ELSE p0
        p2 == IF Truthy(args.tag) THEN ParamsSet(p1, <<"tag">>, args.tag.s) ELSE p1
        p3 == IF Truthy(args.limit) THEN ParamsSet(p2, <<"limit">>, String(args.limit)) ELSE p2
    IN  ApiCall(WithQuery(<<"/needs">>, p3), NoOptions)

my_contributions(args) ==
    LET p0 == <<>>
        p1 == IF Truthy(args.status) THEN ParamsSet(p0, <<"status">>, args.status.s) ELSE p0
        p2 == IF Truthy(args.type) THEN ParamsSet(p1, <<"type">>, args.type.s) ELSE p1
    IN  ApiCall(WithQuery(<<"/contributions">>, p2), NoOptions)

leaderboard(args) ==
    ApiCall(<<"/leaderboard">>
            \o (IF Truthy(args.limit) THEN <<"?", "limit", "=">> \o String(args.limit) ELSE <<>>),
            NoOptions)

check_confidence(args) == ApiCall(<<"/confidence/">> \o args.slug.s, NoOptions)

\* the handler registered under the tool's name, up to its call of api
Handler(tool, args) ==
    CASE tool = "get_assignment" -> get_assignment(args)
      [] tool = "submit_contribution" -> submit_contribution(args)
      [] tool = "review_person" -> review_person(args)
      [] tool = "browse_people" -> browse_people(args)
      [] tool = "find_needs" -> find_needs(args)
      [] tool = "my_contributions" -> my_contributions(args)
      [] tool = "leaderboard" -> leaderboard(args)
      [] tool = "check_confidence" -> check_confidence(args)

\* Mutant of HandlerReturn: the handler without its try/catch.
HandlerReturnNoCatch(r) ==
    IF r.threw THEN [envs |-> <<>>, escaped |-> TRUE]
    ELSE [envs |-> <<toolResult(r.value)>>, escaped |-> FALSE]

\* try { return toolResult(await api(...)) } catch (err) { return toolError(err) }
\* r is what the awaited api call ended with.  The result is the envelopes
\* the handler returns and whether an exception left it.
HandlerReturn(r) ==
    IF r.threw THEN [envs |-> <<toolError(r.err)>>, escaped |-> FALSE]
    ELSE [envs |-> <<toolResult(r.value)>>, escaped |-> FALSE]

(***************************************************************************)
(* Bounds and input domains                                                *)
(***************************************************************************)
\* the number of invocation slots (invocations that can be in flight)
NumInv == 2

InvIds == 1..NumInv

Envs ==
    {[BIOPICS_AGENT |-> <<>>, BIOPICS_MODEL |-> <<>>, BIOPICS_USER_TOKEN |-> <<>>],
     [BIOPICS_AGENT |-> <<"bot">>, BIOPICS_MODEL |-> <<"m1">>, BIOPICS_USER_TOKEN |-> <<>>],
     [BIOPICS_AGENT |-> <<>>, BIOPICS_MODEL |-> <<>>, BIOPICS_USER_TOKEN |-> <<"jwt">>],
     [BIOPICS_AGENT |-> <<"bot">>, BIOPICS_MODEL |-> <<"m1">>, BIOPICS_USER_TOKEN |-> <<"jwt">>]}

\* slug arguments: a plain slug, a slug that carries a query string of its
\* own, a missing slug and a slug of the wrong type
SlugArgs ==
    {JStr(<<"abraham-lincoln">>), JStr(<<"x", "?", "agent", "=", "evil">>), Undef, JNum(7)}

FullArgs(tool) ==
    CASE tool \in {"get_assignment", "review_person", "check_confidence"} ->
            [slug : SlugArgs]
      [] tool = "submit_contribution" ->
            [slug : {JStr(<<"abraham-lincoln">>)},
             type : {JStr(<<"quote">>), Undef},
             content : {JStr(<<"he", " ", "said", " ", "\"", "hi", "\"">>)},
             source_url : {Undef, JStr(<<>>), JStr(<<"https://src.example/a">>)},
             scene_id : {Undef, JNum(0), JNum(12), JStr(<<"twelve">>)},
             liberty_note : {Undef, JStr(<<"merged", " ", "two", " ", "events">>)}]
      [] tool = "browse_people" ->
            [q : {Undef, JStr(<<"frida", " ", "k", "&", "agent", "=", "x">>)},
             tag : {Undef, JStr(<<>>), JStr(<<"Music">>)},
             page : {Undef, JNum(0), JNum(2)},
             limit : {Undef, JNum(100), JStr(<<"ten">>)}]
      [] tool = "find_needs" ->
            [priority : {Undef, JStr(<<"high">>), JStr(<<"urgent">>)},
             tag : {Undef, JStr(<<"Music">>)},
             limit : {Undef, JNum(0), JNum(5)}]
      [] tool = "my_contributions" ->
            [status : {Undef, JStr(<<"pending">>), JStr(<<"needs-revision">>), JStr(<<"bogus">>)},
             type : {Undef, JStr(<<"quote">>)}]
      [] tool = "leaderboard" ->
            [limit : {Undef, JNum(0), JNum(20), JStr(<<"ten">>)}]

Responded(status, body) == [kind |-> "responded", status |-> status, read |-> TRUE, body |-> body]

ReadFailed(status) ==
    [kind |-> "responded", status |-> status, read |-> FALSE, msg |-> <<"terminated">>]

\* response bodies of a 2xx answer: JSON texts, and texts that are no JSON
OkBodies ==
    {<<"{", "\"", "phase", "\"", ":", "1", "}">>,
     <<"[", "1", ",", " ", "null", ",", "\"", "a", " ", "\\", "\"", "b", "\\", "\"", "\"", "]">>,
     <<"{", "\"", "score", "\"", ":", "[", "-", "2", ",", "{", "\"", "x", "\"", ":", "true", "}", "]",
       ",", "\n", "\"", "tags", "\"", ":", "[", "]", "}">>,
     <<"\"", "ok", "\"">>,
     <<"{", "\"", "a", "\"", ":", "1", ",", "\"", "a", "\"", ":", "2", "}">>,
     <<"1", "e999">>,
     <<"{", "\"", "views", "\"", ":", "[", "4", "e999", "]", "}">>,
     <<"<html>">>,
     <<>>}

ErrBodies ==
    {<<"not", " ", "found">>,
     <<"{", "\"", "error", "\"", ":", "\"", "boom", "\"", "}">>,
     <<>>}

FullResponses ==
    {Responded(200, b) : b \in OkBodies}
        \cup {Responded(204, <<>>)}
        \cup {Responded(st, b) : st \in {302, 404, 500}, b \in ErrBodies}
        \cup {ReadFailed(200), ReadFailed(500)}

\* the domains of the concurrent specification
ConcTools == {"leaderboard", "find_needs"}

ConcArgs(tool) ==
    CASE tool = "leaderboard" -> [limit : {Undef, JNum(20)}]
      [] tool = "find_needs" ->
            [priority : {JStr(<<"high">>), JStr(<<"urgent">>)}, tag : {Undef}, limit : {Undef}]

ConcResponses ==
    {Responded(200, <<"{", "\"", "phase", "\"", ":", "1", "}">>),
     Responded(200, <<"[", "1", ",", " ", "null", "]">>),
     Responded(404, <<"not", " ", "found">>)}

(***************************************************************************)
(* The state machine                                                       *)
(***************************************************************************)
NoCall == [tool |-> "none"]

NoNet == [kind |-> "none"]

Pending == [kind |-> "pending"]

Stalled == [kind |-> "stalled"]

NoOut == [envs |-> <<>>, escaped |-> FALSE]

Init ==
    /\ env \in Envs
    /\ pc = [i \in InvIds |-> "idle"]
    /\ call = [i \in InvIds |-> NoCall]
    /\ reqs = [i \in InvIds |-> <<>>]
    /\ net = [i \in InvIds |-> NoNet]
    /\ out = [i \in InvIds |-> NoOut]

\* The arguments fail the tool's schema: the caller gets an error result and
\* the handler is not called.
RejectCall(i, tool, args) ==
    /\ pc[i] = "idle"
    /\ ~Valid(tool, args)
    /\ pc' = [pc EXCEPT ![i] = "done"]
    /\ call' = [call EXCEPT ![i] = [tool |-> tool, args |-> args]]
    /\ out' = [out EXCEPT ![i] =
                 [envs |-> <<toolError(<<"Invalid", " ", "arguments">>)>>, escaped |-> FALSE]]
    /\ UNCHANGED <<env, reqs, net>>

\* The handler runs with validated arguments, up to `await fetch(...)`.
CallTool(i, tool, args) ==
    /\ pc[i] = "idle"
    /\ Valid(tool, args)
    /\ LET c == Handler(tool, args)
       IN  reqs' = [reqs EXCEPT ![i] = Append(@, apiRequest(c.path, c.options))]
    /\ pc' = [pc EXCEPT ![i] = "fetching"]
    /\ call' = [call EXCEPT ![i] = [tool |-> tool, args |-> args]]
    /\ net' = [net EXCEPT ![i] = Pending]
    /\ UNCHANGED <<env, out>>

\* The network: the call of invocation i ends with a response, ...
NetRespond(i, r) ==
    /\ net[i] = Pending
    /\ net' = [net EXCEPT ![i] = r]
    /\ UNCHANGED <<env, pc, call, reqs, out>>

\* ... fails in transport, ...
NetFail(i) ==
    /\ net[i] = Pending
    /\ net' = [net EXCEPT ![i] = [kind |-> "failed", msg |-> <<"fetch", " ", "failed">>]]
    /\ UNCHANGED <<env, pc, call, reqs, out>>

\* Mutant of NetStall: fetch called with a timeout signal, so a call that
\* never ends is aborted and the handler returns an error envelope.
NetStallTimesOut(i) ==
    /\ net[i] = Pending
    /\ net' = [net EXCEPT ![i] = Stalled]
    /\ pc' = [pc EXCEPT ![i] = "done"]
    /\ out' = [out EXCEPT ![i] = HandlerReturn(Threw(<<"The", " ", "operation", " ", "timed", " ", "out">>))]
    /\ UNCHANGED <<env, call, reqs>>

\* ... or never ends: fetch is called without a signal, so nothing at this
\* layer ends a call the network does not end.
NetStall(i) ==
    /\ net[i] = Pending
    /\ net' = [net EXCEPT ![i] = Stalled]
    /\ UNCHANGED <<env, pc, call, reqs, out>>

\* Mutant of Awaited: the response kept in one variable that all invocations
\* share, so an invocation may read the response of another.
AwaitedShared(i) ==
    IF \E j \in InvIds : net[j].kind \in {"failed", "responded"}
    THEN CHOOSE j \in InvIds : net[j].kind \in {"failed", "responded"}
    ELSE i

\* the network call invocation i awaits: its own
Awaited(i) == i

\* every outcome a network call can end with
NetOutcomes ==
    FullResponses \cup ConcResponses \cup {[kind |-> "failed", msg |-> <<"fetch", " ", "failed">>]}

\* what the handler returns for each network outcome: api finishes, then
\* the try/catch of the handler
Outcome == [r \in NetOutcomes |-> HandlerReturn(apiResult(r))]

\* Mutant of Resume: a failed call is issued once more.
ResumeWithRetry(i) ==
    /\ pc[i] = "fetching"
    /\ net[i].kind \in {"failed", "responded"}
    /\ IF apiResult(net[i]).threw /\ Len(reqs[i]) < 2
       THEN /\ reqs' = [reqs EXCEPT ![i] = Append(@, @[1])]
            /\ net' = [net EXCEPT ![i] = Pending]
            /\ UNCHANGED <<env, pc, call, out>>
       ELSE /\ out' = [out EXCEPT ![i] = Outcome[net[i]]]
            /\ pc' = [pc EXCEPT ![i] = "done"]
            /\ UNCHANGED <<env, call, reqs, net>>

\* The awaits of invocation i end: api finishes and the handler returns.
Resume(i) ==
    /\ pc[i] = "fetching"
    /\ net[Awaited(i)].kind \in {"failed", "responded"}
    /\ out' = [out EXCEPT ![i] = Outcome[net[Awaited(i)]]]
    /\ pc' = [pc EXCEPT ![i] = "done"]
    /\ UNCHANGED <<env, call, reqs, net>>

\* The caller has its envelope; the invocation is over and leaves nothing.
Return(i) ==
    /\ pc[i] = "done"
    /\ pc' = [pc EXCEPT ![i] = "idle"]
    /\ call' = [call EXCEPT ![i] = NoCall]
    /\ reqs' = [reqs EXCEPT ![i] = <<>>]
    /\ net' = [net EXCEPT ![i] = NoNet]
    /\ out' = [out EXCEPT ![i] = NoOut]
    /\ UNCHANGED env

\* no other invocation is in progress
Alone(i) == \A j \in InvIds \ {i} : pc[j] = "idle"

\* Invocations served one at a time, over the full input domain.
Next ==
    \/ \E i \in InvIds, tool \in Tools : \E args \in FullArgs(tool) :
          Alone(i) /\ RejectCall(i, tool, args)
    \/ \E i \in InvIds, tool \in Tools : \E args \in FullArgs(tool) :
          Alone(i) /\ CallTool(i, tool, args)
    \/ \E i \in InvIds, r \in FullResponses : NetRespond(i, r)
    \/ \E i \in InvIds : NetFail(i)
    \/ \E i \in InvIds : NetStall(i)
    \/ \E i \in InvIds : Resume(i)
    \/ \E i \in InvIds : Return(i)

Spec == Init /\ [][Next]_vars

\* Invocations in flight together, over the concurrent input domain.
ConcNext ==
    \/ \E i \in InvIds, tool \in ConcTools : \E args \in ConcArgs(tool) :
          RejectCall(i, tool, args)
    \/ \E i \in InvIds, tool \in ConcTools : \E args \in ConcArgs(tool) :
          CallTool(i, tool, args)
    \/ \E i \in InvIds, r \in ConcResponses : NetRespond(i, r)
    \/ \E i \in InvIds : NetFail(i)
    \/ \E i \in InvIds : NetStall(i)
    \/ \E i \in InvIds : Resume(i)
    \/ \E i \in InvIds : Return(i)

\* the concurrent specification runs under the default identity and under a
\* bearer token
ConcInit == Init /\ env.BIOPICS_AGENT = <<>>

ConcSpec == ConcInit /\ [][ConcNext]_vars

\* Every network call that is not stalled ends, and a handler whose await
\* has ended is resumed by the event loop.
NetEnds(i) == NetFail(i) \/ \E r \in ConcResponses : NetRespond(i, r)

LiveSpec ==
    /\ ConcSpec
    /\ \A i \in InvIds : WF_vars(NetEnds(i)) /\ WF_vars(Resume(i))


(***************************************************************************)
(* Vocabulary of the properties                                            *)
(***************************************************************************)
IsEnvelope(e) == Len(e.content) = 1 /\ e.content[1].type = "text"

IsErrorEnvelope(e) == IsEnvelope(e) /\ "isError" \in DOMAIN e /\ e.isError = TRUE

IsSuccessEnvelope(e) == IsEnvelope(e) /\ "isError" \notin DOMAIN e

EnvText(e) == e.content[1].text

\* invocation i has returned exactly one envelope, and it is an error envelope
ReturnedError(i) == Len(out[i].envs) = 1 /\ IsErrorEnvelope(out[i].envs[1])

\* invocation i has returned exactly one envelope, and it is a success envelope
ReturnedSuccess(i) == Len(out[i].envs) = 1 /\ IsSuccessEnvelope(out[i].envs[1])

AgentParam == <<"agent", "=">>

\* the network call of invocation i ended in a failure of the given kind
TransportFailed(i) ==
    net[i].kind = "failed" \/ (net[i].kind = "responded" /\ ~net[i].read)

NonOkAnswered(i) ==
    net[i].kind = "responded" /\ net[i].read /\ (net[i].status < 200 \/ net[i].status > 299)

OkAnswered(i) ==
    net[i].kind = "responded" /\ net[i].read /\ net[i].status >= 200 /\ net[i].status <= 299

(***************************************************************************)
(* C1: a tool invocation returns exactly one envelope, a success envelope  *)
(* or an error envelope, whatever its outcome (validation failure,         *)
(* transport failure, non-2xx answer, unparsable body, success), and no    *)
(* failure leaves the handler uncaught.                                    *)
(***************************************************************************)
C1_ExactlyOneEnvelope ==
    \A i \in InvIds :
        /\ ~out[i].escaped
        /\ pc[i] # "done" => out[i].envs = <<>>
        /\ pc[i] = "done" =>
              /\ Len(out[i].envs) = 1
              /\ IsErrorEnvelope(out[i].envs[1]) # IsSuccessEnvelope(out[i].envs[1])

\* a 200 answer whose body is no JSON has ended in one error envelope
C1_Witness ==
    \E i \in InvIds :
        /\ pc[i] = "done"
        /\ OkAnswered(i)
        /\ net[i].body = <<"<html>">>
        /\ ReturnedError(i)

(***************************************************************************)
(* C2: when the arguments fail the tool's schema (a required field         *)
(* missing, a field of the wrong type, an enum field outside its literal   *)
(* set), the caller receives an error envelope and no HTTP request is      *)
(* issued for the invocation.  The schema here is the table of the         *)
(* specification, not the zod declarations of the model.                   *)
(***************************************************************************)
TableRequired(tool) ==
    CASE tool \in {"get_assignment", "review_person", "check_confidence"} -> {"slug"}
      [] tool = "submit_contribution" -> {"slug", "type", "content"}
      [] OTHER -> {}

TableNumbers == {"scene_id", "page", "limit"}

TableEnum(tool, p) ==
    CASE tool = "find_needs" /\ p = "priority" -> {<<"high">>, <<"medium">>, <<"low">>}
      [] tool = "my_contributions" /\ p = "status" ->
            {<<"pending">>, <<"approved">>, <<"rejected">>, <<"integrated">>, <<"needs-revision">>}
      [] OTHER -> {}

ArgsFailSchema(tool, args) ==
    \E p \in DOMAIN args :
        \/ args[p] = Undef /\ p \in TableRequired(tool)
        \/ args[p] # Undef /\ p \in TableNumbers /\ args[p].t # "num"
        \/ args[p] # Undef /\ p \notin TableNumbers /\ args[p].t # "str"
        \/ /\ args[p].t = "str"
           /\ TableEnum(tool, p) # {}
           /\ args[p].s \notin TableEnum(tool, p)

\* C2: arguments that fail the schema end in one error envelope, and no HTTP
\* request is ever issued for the invocation.
C2_InvalidArgsNoRequest ==
    \A i \in InvIds :
        (pc[i] # "idle" /\ ArgsFailSchema(call[i].tool, call[i].args)) =>
            /\ reqs[i] = <<>>
            /\ net[i] = NoNet
            /\ pc[i] = "done"
            /\ ReturnedError(i)

\* find_needs called with a priority outside its literal set
C2_Witness ==
    \E i \in InvIds :
        /\ pc[i] = "done"
        /\ call[i].tool = "find_needs"
        /\ call[i].args.priority = JStr(<<"urgent">>)
        /\ reqs[i] = <<>>
        /\ ReturnedError(i)

(***************************************************************************)
(* C3: when the remote endpoint answers with a non-2xx status S and body   *)
(* text T, the invocation returns an error envelope whose message holds    *)
(* both S and T verbatim.                                                  *)
(***************************************************************************)
StatusText(st) ==
    CASE st = 302 -> <<"3", "0", "2">>
      [] st = 404 -> <<"4", "0", "4">>
      [] st = 500 -> <<"5", "0", "0">>

\* C3: a non-2xx answer with status S and body T ends in an error envelope
\* whose message contains S and T.
C3_NonOkStatusAndBody ==
    \A i \in InvIds :
        (pc[i] = "done" /\ NonOkAnswered(i)) =>
            /\ ReturnedError(i)
            /\ Contains(EnvText(out[i].envs[1]), StatusText(net[i].status))
            /\ Contains(EnvText(out[i].envs[1]), net[i].body)

\* status 404 with body "not found"
C3_Witness ==
    \E i \in InvIds :
        /\ pc[i] = "done"
        /\ net[i] = Responded(404, <<"not", " ", "found">>)
        /\ ReturnedError(i)
        /\ Contains(EnvText(out[i].envs[1]), <<"4", "0", "4">>)
        /\ Contains(EnvText(out[i].envs[1]), <<"not", " ", "found">>)

(***************************************************************************)
(* C4: a 200 answer with JSON body B yields a success envelope whose text, *)
(* parsed as JSON, deep-equals B (B is the value the body parses to).      *)
(***************************************************************************)
\* the value holds no number outside the range of a double
RECURSIVE Finite(_)
Finite(v) ==
    CASE v.t = "infinity" -> FALSE
      [] v.t = "arr" -> \A k \in 1..Len(v.a) : Finite(v.a[k])
      [] v.t = "obj" -> \A k \in 1..Len(v.o) : Finite(v.o[k].val)
      [] OTHER -> TRUE

RoundTrips(i) ==
    /\ ReturnedSuccess(i)
    /\ JSONparse(EnvText(out[i].envs[1])).ok
    /\ JSONparse(EnvText(out[i].envs[1])).v = JSONparse(net[i].body).v

\* C4 as claimed: every JSON body round-trips.
C4_RoundTripAnyBody ==
    \A i \in InvIds :
        (pc[i] = "done" /\ OkAnswered(i) /\ net[i].status = 200 /\ JSONparse(net[i].body).ok)
            => RoundTrips(i)

\* C4 as amended: a 200 answer with JSON body B yields a success envelope
\* whose text, parsed as JSON, deep-equals B, provided B holds no number
\* beyond the range of a double (such a number is Infinity after parsing and
\* is written as null).
C4_RoundTripFiniteBody ==
    \A i \in InvIds :
        (/\ pc[i] = "done"
         /\ OkAnswered(i)
         /\ net[i].status = 200
         /\ JSONparse(net[i].body).ok
         /\ Finite(JSONparse(net[i].body).v))
            => RoundTrips(i)

\* a nested body with an escaped quote in a string has round-tripped
C4_Witness ==
    \E i \in InvIds :
        /\ pc[i] = "done"
        /\ net[i].kind = "responded"
        /\ net[i].status = 200
        /\ net[i].read
        /\ JSONparse(net[i].body).ok
        /\ JSONparse(net[i].body).v =
              JArr(<<JNum(1), JNull, JStr(<<"a", " ", "\"", "b", "\"">>)>>)
        /\ RoundTrips(i)

(***************************************************************************)
(* C5: the URL of an outbound request carries agent=<agent name> if and    *)
(* only if no bearer token is configured.                                  *)
(***************************************************************************)
\* C5 as claimed: with a token no request URL contains agent=, and without
\* a token every request URL contains it exactly once.
C5_AgentParamIffNoToken ==
    \A i \in InvIds : \A k \in 1..Len(reqs[i]) :
        IF USER_TOKEN # <<>>
        THEN ~Contains(reqs[i][k].url, AgentParam)
        ELSE Occurrences(reqs[i][k].url, AgentParam) = 1

\* the agent= parameters a caller's own arguments put into the path: those
\* of a slug, which is substituted unescaped
FromSlug(args) ==
    IF "slug" \in DOMAIN args THEN Occurrences(args.slug.s, AgentParam) ELSE 0

\* C5 as amended: the Request Client appends agent=<agent name> to the path
\* it is given exactly when no bearer token is configured (joined with '&'
\* when the path has a '?', with '?' otherwise) and appends nothing when one
\* is; the URL contains agent= nowhere else, except where the slug argument,
\* which is substituted unescaped, itself contains it (the agent name being
\* free of URL punctuation).
C5_AgentSuffixIffNoToken ==
    \A i \in InvIds : \A k \in 1..Len(reqs[i]) :
        LET url == reqs[i][k].url
            path == Handler(call[i].tool, call[i].args).path
            sep == IF \E j \in 1..Len(path) : path[j] = "?" THEN "&" ELSE "?"
        IN  /\ USER_TOKEN # <<>> =>
                /\ url = API_BASE \o path
                /\ Occurrences(url, AgentParam) = FromSlug(call[i].args)
            /\ USER_TOKEN = <<>> =>
                /\ url = API_BASE \o path \o <<sep>> \o AgentParam \o AGENT_NAME
                /\ Occurrences(url, AgentParam) = 1 + FromSlug(call[i].args)

\* without a token, a path that has a query string gets &agent=<name>; the
\* search text "agent=x" is escaped and adds no agent= of its own
C5_Witness ==
    \E i \in InvIds :
        /\ pc[i] = "fetching"
        /\ USER_TOKEN = <<>>
        /\ call[i].tool = "browse_people"
        /\ call[i].args.q # Undef
        /\ Occurrences(reqs[i][1].url, AgentParam) = 1
        /\ Contains(reqs[i][1].url, <<"&", "agent", "=", "mcp-agent">>)

(***************************************************************************)
(* C6: the outbound JSON body of submit_contribution always has the keys   *)
(* type and content, and has each of source_url, scene_id, liberty_note    *)
(* only when that argument was supplied non-empty / non-zero; with all     *)
(* three omitted the keys are exactly type and content, and scene_id 0 is  *)
(* omitted.                                                                *)
(***************************************************************************)
\* the keys of the JSON object a request body parses to
BodyKeys(req) ==
    LET o == JSONparse(req.body.s).v.o
    IN  {o[k].key : k \in 1..Len(o)}

SuppliedNonEmpty(v) == v # Undef /\ v # JStr(<<>>) /\ v # JNum(0)

\* C6: the outbound body has type and content, and an optional key only when
\* its argument was supplied non-empty / non-zero.
C6_ContributionBodyKeys ==
    \A i \in InvIds : \A k \in 1..Len(reqs[i]) :
        call[i].tool = "submit_contribution" =>
            LET a == call[i].args
                keys == BodyKeys(reqs[i][k])
            IN  /\ reqs[i][k].method = <<"POST">>
                /\ JSONparse(reqs[i][k].body.s).ok
                /\ {<<"type">>, <<"content">>} \subseteq keys
                /\ keys \subseteq {<<"type">>, <<"content">>, <<"source_url">>,
                                  <<"scene_id">>, <<"liberty_note">>}
                /\ <<"source_url">> \in keys => SuppliedNonEmpty(a.source_url)
                /\ <<"scene_id">> \in keys => SuppliedNonEmpty(a.scene_id)
                /\ <<"liberty_note">> \in keys => SuppliedNonEmpty(a.liberty_note)
                /\ a.scene_id = JNum(0) => <<"scene_id">> \notin keys
                /\ (a.source_url = Undef /\ a.scene_id = Undef /\ a.liberty_note = Undef)
                      => keys = {<<"type">>, <<"content">>}

\* scene_id 0 with the other two omitted: the body has exactly type and content
C6_Witness ==
    \E i \in InvIds :
        /\ pc[i] = "fetching"
        /\ call[i].tool = "submit_contribution"
        /\ call[i].args.scene_id = JNum(0)
        /\ call[i].args.source_url = Undef
        /\ call[i].args.liberty_note = Undef
        /\ BodyKeys(reqs[i][1]) = {<<"type">>, <<"content">>}

(***************************************************************************)
(* C7: for browse_people, find_needs, my_contributions and leaderboard the *)
(* path handed to the Request Client has a query key only when the         *)
(* optional argument was supplied; browse_people without optional          *)
(* arguments has no query string, and with tag "Music" the path is         *)
(* /people?tag=Music.                                                      *)
(***************************************************************************)
QueryTools == {"browse_people", "find_needs", "my_contributions", "leaderboard"}

\* the path api was given: the URL without the base and without the suffix
\* api appended
PathOf(url) ==
    LET n == IF USER_TOKEN # <<>> THEN 0 ELSE 3 + Len(AGENT_NAME)
    IN  SubSeq(url, Len(API_BASE) + 1, Len(url) - n)

\* the path has the query key k
HasQueryKey(path, k) ==
    \E j \in 1..Len(path) : path[j] \in {"?", "&"} /\ OccursAt(path, <<k, "=">>, j + 1)

\* some query key of the path has an empty value
HasEmptyValue(path) ==
    \E j \in 1..Len(path) :
        path[j] = "=" /\ (j = Len(path) \/ path[j + 1] = "&")

\* C7: a query key is in the path only when its argument was supplied, and
\* never with an empty value.
C7_QueryKeysOnlyWhenSupplied ==
    \A i \in InvIds : \A k \in 1..Len(reqs[i]) :
        call[i].tool \in QueryTools =>
            LET a == call[i].args
                path == PathOf(reqs[i][k].url)
            IN  /\ \A p \in {"q", "tag", "page", "limit", "priority", "status", "type"} :
                      HasQueryKey(path, p) => (p \in DOMAIN a /\ a[p] # Undef)
                /\ ~HasEmptyValue(path)
                /\ (\A p \in DOMAIN a : a[p] = Undef) => ~Includes(path, "?")
                /\ (/\ call[i].tool = "browse_people"
                    /\ a.tag = JStr(<<"Music">>)
                    /\ a.q = Undef /\ a.page = Undef /\ a.limit = Undef)
                      => path = <<"/people", "?", "tag", "=", "Music">>

\* browse_people with tag "Music" alone
C7_Witness ==
    \E i \in InvIds :
        /\ pc[i] = "fetching"
        /\ call[i].tool = "browse_people"
        /\ call[i].args = [q |-> Undef, tag |-> JStr(<<"Music">>), page |-> Undef, limit |-> Undef]
        /\ PathOf(reqs[i][1].url) = <<"/people", "?", "tag", "=", "Music">>


(***************************************************************************)
(* C8: with several invocations in flight and responses arriving in any    *)
(* order, each invocation returns the envelope built from the response to  *)
(* its own request, never another invocation's payload or error.           *)
(***************************************************************************)
\* the one envelope of invocation i is the one its own network outcome calls for
MatchesOwnOutcome(i) ==
    LET e == out[i].envs[1]
    IN  CASE net[i].kind = "failed" ->
                IsErrorEnvelope(e) /\ Contains(EnvText(e), net[i].msg)
          [] NonOkAnswered(i) ->
                /\ IsErrorEnvelope(e)
                /\ Contains(EnvText(e), net[i].body)
                /\ Contains(EnvText(e), StatusText(net[i].status))
          [] OkAnswered(i) ->
                /\ IsSuccessEnvelope(e)
                /\ JSONparse(EnvText(e)).ok
                /\ JSONparse(EnvText(e)).v = JSONparse(net[i].body).v

\* C8: an invocation that is done returned the envelope of its own network
\* outcome.
C8_NoCrossTalk ==
    \A i \in InvIds :
        (pc[i] = "done" /\ reqs[i] # <<>>) =>
            /\ net[i].kind \in {"failed", "responded"}
            /\ Len(out[i].envs) = 1
            /\ MatchesOwnOutcome(i)

\* leaderboard and find_needs both done, with different outcomes
C8_Witness ==
    \E i, j \in InvIds :
        /\ pc[i] = "done" /\ call[i].tool = "leaderboard" /\ OkAnswered(i)
        /\ pc[j] = "done" /\ call[j].tool = "find_needs" /\ NonOkAnswered(j)
        /\ ReturnedSuccess(i)
        /\ ReturnedError(j)

(***************************************************************************)
(* C9: no retry: an invocation that passes validation issues exactly one   *)
(* HTTP request, and after a non-2xx answer or a transport failure no      *)
(* second request is issued; the failure is surfaced as the error          *)
(* envelope.                                                               *)
(***************************************************************************)
C9_NoRetry ==
    \A i \in InvIds :
        /\ Len(reqs[i]) <= 1
        /\ pc[i] = "fetching" => Len(reqs[i]) = 1
        /\ (pc[i] = "done" /\ ~ArgsFailSchema(call[i].tool, call[i].args)) => Len(reqs[i]) = 1
        /\ (pc[i] = "done" /\ (TransportFailed(i) \/ NonOkAnswered(i))) => ReturnedError(i)

\* a transport failure surfaced after a single request
C9_Witness ==
    \E i \in InvIds :
        /\ pc[i] = "done"
        /\ net[i].kind = "failed"
        /\ Len(reqs[i]) = 1
        /\ ReturnedError(i)

(***************************************************************************)
(* C10: there is no timeout or cancellation: an invocation returns its     *)
(* envelope only after its network call has ended; an invocation whose     *)
(* network call never ends never returns; if every network call ends,      *)
(* every invocation returns; a hung invocation does not keep the others    *)
(* from returning.                                                         *)
(***************************************************************************)
C10_NoTimeout ==
    /\ [](\A i \in InvIds :
            (pc[i] = "done" /\ reqs[i] # <<>>) => net[i].kind \in {"failed", "responded"})
    /\ [](\A i \in InvIds : net[i] = Stalled => (pc[i] = "fetching" /\ out[i] = NoOut))
    /\ [][\A i \in InvIds : net[i] = Stalled => net'[i] = Stalled]_vars
    /\ \A i \in InvIds : (pc[i] = "fetching") ~> (pc[i] = "done" \/ net[i] = Stalled)

\* one invocation hangs while another, started with it, has returned
C10_Witness ==
    \E i, j \in InvIds :
        /\ net[i] = Stalled
        /\ pc[i] = "fetching"
        /\ pc[j] = "done"
        /\ reqs[j] # <<>>
        /\ Len(out[j].envs) = 1

=============================================================================
